---- MODULE Spec2Model ----
(***************************************************************************)
(* Region extraction of the AI-VAD model                                   *)
(* (src/src/anomalib/models/video/ai_vad/regions.py).                      *)
(*                                                                         *)
(* A detection set ("regions" of one image) is the dict of four parallel   *)
(* tensors boxes, labels, scores, masks; it is modelled as a record of     *)
(* four sequences.  A box is <<x1, y1, x2, y2>>.  A mask is the set of     *)
(* pixels <<x, y>> whose value is 1.  Scores are in hundredths (0.5 is     *)
(* 50).  The overlap threshold is a rational <<numerator, denominator>>    *)
(* with a positive denominator, so that the comparisons of the code are    *)
(* exact.                                                                  *)
(***************************************************************************)
EXTENDS Integers, Sequences, FiniteSets, TLC

VARIABLES
    cfg,                    \* the extractor's configuration (self.*)
    first_shape,            \* shape <<N, H, W>> of first_frame
    last_shape,             \* shape <<N, H, W>> of last_frame
    pc,                     \* position of the call
    detector_calls,         \* number of invocations of self.backbone
    detected,               \* the detections before fusion and filtering (history)
    pixel_diff,             \* per image: the grayscale difference, in 1/255
    foreground_map,         \* per image: the residual foreground pixels
    regions,                \* the batch handed to post_process_bbox_detections
    img,                    \* index of the image the filter loop is at
    stage,                  \* last stage completed for that image
    prev,                   \* filtered_regions before the last stage (history)
    filtered_regions,       \* the loop's local filtered_regions
    indices,                \* the argsort of the last overlap suppression
    filtered_regions_list,  \* the loop's result so far
    pass,                   \* 1: first application of the filter, 2: second
    first_result,           \* result of the first application (history)
    result,                 \* what the last call returned
    error                   \* the exception raised, or "none"

vars == <<cfg, first_shape, last_shape, pc, detector_calls, detected, pixel_diff,
          foreground_map, regions, img, stage, prev, filtered_regions, indices,
          filtered_regions_list, pass, first_result, result, error>>

(***************************************************************************)
(* Constants of the program and bounds of the model.                       *)
(***************************************************************************)
PERSON_LABEL == 1

\* most detections the detector returns for one image
MaxDet == 3

\* height and width of the frames
FrameH == 3

FrameW == 7

\* batch sizes of the two frame batches
BatchSizes == {1, 2}

Max(a, b) == IF a >= b THEN a ELSE b

Min(a, b) == IF a <= b THEN a ELSE b

Range(s) == {s[i] : i \in DOMAIN s}

Pixels(h, w) == (0 .. w - 1) \X (0 .. h - 1)

EmptyRegions == [boxes |-> <<>>, labels |-> <<>>, scores |-> <<>>, masks |-> <<>>]

(***************************************************************************)
(* torch and torchvision primitives the code calls.                        *)
(***************************************************************************)
\* torchvision.ops.box_area: (x2 - x1) * (y2 - y1), with no clamping
box_area(box) == (box[3] - box[1]) * (box[4] - box[2])

\* torchvision.ops.clip_boxes_to_image: x into [0, width], y into [0, height]
clip_boxes_to_image(box, h, w) ==
    << Max(0, Min(box[1], w)), Max(0, Min(box[2], h)),
       Max(0, Min(box[3], w)), Max(0, Min(box[4], h)) >>

\* torch.where(flags)[0]: the indices at which flags holds, ascending
RECURSIVE where_from(_, _)
where_from(flags, i) ==
    IF i > Len(flags) THEN <<>>
    ELSE (IF flags[i] THEN <<i>> ELSE <<>>) \o where_from(flags, i + 1)

where(flags) == where_from(flags, 1)

\* areas.argsort(): any permutation that sorts ascending; the order of equal
\* areas is not fixed (argsort is not stable by default)
RECURSIVE Perms(_)
Perms(S) ==
    IF S = {} THEN {<<>>}
    ELSE UNION {{<<i>> \o p : p \in Perms(S \ {i})} : i \in S}

argsort(areas) ==
    {p \in Perms(DOMAIN areas) :
        \A i \in 1 .. Len(p) - 1 : areas[p[i]] <= areas[p[i + 1]]}

\* a / b > threshold in floating point, for integers a, b: a positive over
\* zero is +inf, zero over zero is nan (every comparison with nan is false)
RatioExceeds(a, b, threshold) ==
    IF b > 0 THEN a * threshold[2] > threshold[1] * b
    ELSE IF b < 0 THEN a * threshold[2] < threshold[1] * b
    ELSE a > 0

(***************************************************************************)
(* anomalib.data.utils.boxes: the two conversions between masks and boxes. *)
(***************************************************************************)
\* one mask per image: the pixels inside any of the image's boxes
boxes_to_masks(boxes_list, h, w) ==
    [im \in 1 .. Len(boxes_list) |->
        {p \in Pixels(h, w) :
            \E k \in 1 .. Len(boxes_list[im]) :
                LET b == boxes_list[im][k] IN
                /\ b[1] <= p[1] /\ p[1] <= b[3]
                /\ b[2] <= p[2] /\ p[2] <= b[4]}]

Adjacent(p, q) ==
    /\ p[1] - q[1] \in {-1, 0, 1}
    /\ p[2] - q[2] \in {-1, 0, 1}

RECURSIVE Grow(_, _)
Grow(comp, mask) ==
    LET more == comp \cup {p \in mask : \E q \in comp : Adjacent(p, q)} IN
    IF more = comp THEN comp ELSE Grow(more, mask)

\* the first pixel of a mask in scan order (row by row)
FirstPixel(mask) ==
    CHOOSE p \in mask :
        \A q \in mask : p[2] < q[2] \/ (p[2] = q[2] /\ p[1] <= q[1])

TightBox(comp) ==
    << CHOOSE x \in {p[1] : p \in comp} : \A p \in comp : x <= p[1],
       CHOOSE y \in {p[2] : p \in comp} : \A p \in comp : y <= p[2],
       CHOOSE x \in {p[1] : p \in comp} : \A p \in comp : x >= p[1],
       CHOOSE y \in {p[2] : p \in comp} : \A p \in comp : y >= p[2] >>

\* the tight bounding box of every connected component, in scan order
RECURSIVE ComponentBoxes(_)
ComponentBoxes(mask) ==
    IF mask = {} THEN <<>>
    ELSE LET comp == Grow({FirstPixel(mask)}, mask) IN
         <<TightBox(comp)>> \o ComponentBoxes(mask \ comp)

masks_to_boxes(masks) == [im \in 1 .. Len(masks) |-> ComponentBoxes(masks[im])]

(***************************************************************************)
(* RegionExtractor: the index selection and the three filters.             *)
(***************************************************************************)
\* a plausible slip: the masks are left as they were
subsample_regions_skip_masks(rgn, idx) ==
    [key \in DOMAIN rgn |->
        IF key = "masks" THEN rgn[key]
        ELSE [i \in 1 .. Len(idx) |-> rgn[key][idx[i]]]]

subsample_regions(rgn, idx) ==
    [key \in DOMAIN rgn |-> [i \in 1 .. Len(idx) |-> rgn[key][idx[i]]]]

_keep_only_persons(rgn) ==
    LET keep == where([i \in 1 .. Len(rgn.labels) |-> rgn.labels[i] = PERSON_LABEL])
    IN  subsample_regions(rgn, keep)

\* a plausible slip: >= in place of >
_filter_by_area_inclusive(rgn, min_area) ==
    LET areas == [i \in 1 .. Len(rgn.boxes) |-> box_area(rgn.boxes[i])]
        keep == where([i \in 1 .. Len(areas) |-> areas[i] >= min_area])
    IN  subsample_regions(rgn, keep)

_filter_by_area(rgn, min_area) ==
    LET areas == [i \in 1 .. Len(rgn.boxes) |-> box_area(rgn.boxes[i])]
        keep == where([i \in 1 .. Len(areas) |-> areas[i] > min_area])
    IN  subsample_regions(rgn, keep)

\* the area of the intersection of two boxes, 0 when they do not overlap
overlap_area(a, b) ==
    LET overlap_coords == << Max(a[1], b[1]), Max(a[2], b[2]),
                             Min(a[3], b[3]), Min(a[4], b[4]) >>
        mask == /\ overlap_coords[1] < overlap_coords[3]
                /\ overlap_coords[2] < overlap_coords[4]
    IN  IF mask THEN box_area(overlap_coords) ELSE 0

\* a plausible slip: every box is compared with all the others
keeps_against_all(rgn, threshold, sorted, idx) ==
    ~ \E other \in (1 .. Len(sorted)) \ {idx} :
        RatioExceeds(overlap_area(rgn.boxes[sorted[idx]], rgn.boxes[sorted[other]]),
                     box_area(rgn.boxes[sorted[idx]]), threshold)

\* a plausible slip: the overlap is not masked where the boxes are apart
keeps_unmasked(rgn, threshold, sorted, idx) ==
    ~ \E later \in idx + 1 .. Len(sorted) :
        LET a == rgn.boxes[sorted[idx]]
            b == rgn.boxes[sorted[later]]
        IN  RatioExceeds(box_area(<< Max(a[1], b[1]), Max(a[2], b[2]),
                                     Min(a[3], b[3]), Min(a[4], b[4]) >>),
                         box_area(a), threshold)

\* whether the box at position idx of the sort order is kept
keeps(rgn, threshold, sorted, idx) ==
    ~ \E later \in idx + 1 .. Len(sorted) :
        RatioExceeds(overlap_area(rgn.boxes[sorted[idx]], rgn.boxes[sorted[later]]),
                     box_area(rgn.boxes[sorted[idx]]), threshold)

\* a plausible slip: keep.append(idx) in place of keep.append(indices[idx])
overlap_keep_positions(rgn, threshold, sorted) ==
    where([idx \in 1 .. Len(sorted) |-> keeps(rgn, threshold, sorted, idx)])

\* lines 280-293: the indices kept, in the order of the sort
overlap_keep(rgn, threshold, sorted) ==
    LET flags == [idx \in 1 .. Len(sorted) |-> keeps(rgn, threshold, sorted, idx)]
        pos == where(flags)
    IN  [i \in 1 .. Len(pos) |-> sorted[pos[i]]]

\* sorted is the outcome of areas.argsort()
_delete_overlapping_boxes(rgn, threshold, sorted) ==
    subsample_regions(rgn, overlap_keep(rgn, threshold, sorted))

\* line 221: the label filter, when persons_only is set
label_stage_skipped(rgn, c) == rgn

label_stage(rgn, c) == IF c.persons_only THEN _keep_only_persons(rgn) ELSE rgn

(***************************************************************************)
(* RegionExtractor._add_foreground_boxes.                                  *)
(***************************************************************************)
\* the size two broadcast dimensions give, 0 when they cannot be broadcast
BroadcastDim(a, b) ==
    IF a = b THEN a ELSE IF a = 1 THEN b ELSE IF b = 1 THEN a ELSE 0

\* the batch size of first_frame - last_frame, 0 when the subtraction raises
\* (the heights and widths here are never 1, so they must agree)
DiffBatch(fs, ls) ==
    IF fs[2] = ls[2] /\ fs[3] = ls[3] THEN BroadcastDim(fs[1], ls[1]) ELSE 0

\* lines 172-176: every box is extended by 2 in all directions and clipped
expand_shrinking(box, h, w) ==
    clip_boxes_to_image(<<box[1] + 2, box[2] + 2, box[3] - 2, box[4] - 2>>, h, w)

expand(box, h, w) ==
    clip_boxes_to_image(<<box[1] - 2, box[2] - 2, box[3] + 2, box[4] + 2>>, h, w)

\* line 169: the binary threshold, pixel_diff being in 1/255
threshold_map(diff, binary_threshold) ==
    {p \in DOMAIN diff : diff[p] > binary_threshold}

\* lines 172-178: the foreground left outside the extended boxes of every
\* image; boxes_mask has one mask per image of rgns and is broadcast
residual_not_inverted(rgns, diffs, h, w, binary_threshold) ==
    LET boxes_list == [im \in 1 .. Len(rgns) |->
                          [k \in 1 .. Len(rgns[im].boxes) |->
                              expand(rgns[im].boxes[k], h, w)]]
        boxes_mask == boxes_to_masks(boxes_list, h, w)
    IN  [im \in 1 .. Len(diffs) |->
            threshold_map(diffs[im], binary_threshold)
                \cap boxes_mask[IF Len(rgns) = 1 THEN 1 ELSE im]]

residual(rgns, diffs, h, w, binary_threshold) ==
    LET boxes_list == [im \in 1 .. Len(rgns) |->
                          [k \in 1 .. Len(rgns[im].boxes) |->
                              expand(rgns[im].boxes[k], h, w)]]
        boxes_mask == boxes_to_masks(boxes_list, h, w)
    IN  [im \in 1 .. Len(diffs) |->
            threshold_map(diffs[im], binary_threshold)
                \ boxes_mask[IF Len(rgns) = 1 THEN 1 ELSE im]]

\* a plausible slip: the new entries are put in front
append_foreground_in_front(im_regions, boxes, pixel_mask, h, w) ==
    IF Len(boxes) = 0 THEN im_regions
    ELSE [boxes  |-> boxes \o im_regions.boxes,
          labels |-> [k \in 1 .. Len(boxes) |-> 0] \o im_regions.labels,
          scores |-> [k \in 1 .. Len(boxes) |-> 50] \o im_regions.scores,
          masks  |-> [k \in 1 .. Len(boxes) |->
                         pixel_mask \cap boxes_to_masks(<<(<<boxes[k]>>)>>, h, w)[1]]
                     \o im_regions.masks]

\* lines 185-201: one iteration of the loop; label 0, score 0.5, and the
\* foreground pixels inside each new box as its mask
append_foreground(im_regions, boxes, pixel_mask, h, w) ==
    IF Len(boxes) = 0 THEN im_regions
    ELSE [boxes  |-> im_regions.boxes \o boxes,
          labels |-> im_regions.labels \o [k \in 1 .. Len(boxes) |-> 0],
          scores |-> im_regions.scores \o [k \in 1 .. Len(boxes) |-> 50],
          masks  |-> im_regions.masks \o
                     [k \in 1 .. Len(boxes) |->
                         pixel_mask \cap boxes_to_masks(<<(<<boxes[k]>>)>>, h, w)[1]]]

\* the whole method, given the pixel difference of every image: the fused
\* batch, the residual foreground and the exception raised.  zip(strict=True)
\* raises once the shorter sequence is exhausted, after the iterations on
\* the common prefix.
_add_foreground_boxes(rgns, diffs, h, w, binary_threshold) ==
    LET fg == residual(rgns, diffs, h, w, binary_threshold)
        batch_boxes == masks_to_boxes(fg)
        common == Min(Len(rgns), Len(diffs))
    IN  [regions |-> [im \in 1 .. Len(rgns) |->
                         IF im <= common
                         THEN append_foreground(rgns[im], batch_boxes[im], fg[im], h, w)
                         ELSE rgns[im]],
         foreground_map |-> fg,
         error |-> IF Len(rgns) = Len(diffs) THEN "none" ELSE "ValueError"]

(***************************************************************************)
(* Inputs: what the detector may return and what the frames may hold.      *)
(***************************************************************************)
\* the subsequences of pool with at most MaxDet entries, as detection sets;
\* the mask of a detection is its box rasterised on the frame
Detections(pool, h, w) ==
    {LET keep == where([i \in 1 .. Len(pool) |-> i \in S]) IN
     [boxes  |-> [i \in 1 .. Len(keep) |-> pool[keep[i]][1]],
      labels |-> [i \in 1 .. Len(keep) |-> pool[keep[i]][2]],
      scores |-> [i \in 1 .. Len(keep) |-> pool[keep[i]][3]],
      masks  |-> [i \in 1 .. Len(keep) |->
                     boxes_to_masks(<<(<<pool[keep[i]][1]>>)>>, h, w)[1]]]
     : S \in {T \in SUBSET (1 .. Len(pool)) : Cardinality(T) <= MaxDet}}

\* detections of the detector on a frame: <<box, label, score>>
ForwardPool(h, w) ==
    << <<(<<0, 0, w, h>>), 2, 95>>,
       <<(<<0, 0, 1, 1>>), PERSON_LABEL, 90>>,
       <<(<<0, 0, 2, 2>>), PERSON_LABEL, 85>> >>

\* detection sets handed to the filter directly: nested boxes, boxes of
\* equal area that overlap, boxes apart, and degenerate boxes
FilterPool ==
    << <<(<<0, 0, 2, 5>>), PERSON_LABEL, 95>>,
       <<(<<5, 5, 1, 1>>), PERSON_LABEL, 94>>,
       <<(<<0, 0, 6, 6>>), 2, 93>>,
       <<(<<0, 0, 4, 5>>), PERSON_LABEL, 92>>,
       <<(<<3, 3, 3, 7>>), PERSON_LABEL, 91>>,
       <<(<<10, 10, 12, 12>>), 2, 90>>,
       <<(<<1, 0, 5, 5>>), PERSON_LABEL, 89>>,
       <<(<<4, 1, 2, 3>>), 2, 88>>,
       <<(<<0, 0, 1, 2>>), PERSON_LABEL, 87>> >>

\* lines 161-166: gaussian_blur, the absolute difference and rgb_to_grayscale
\* are torchvision's; what they yield for one image is drawn from these
\* differences, in 1/255: nothing moves, everything moves, a blob on the
\* right, a blob and a lone pixel; and a difference of exactly the threshold
\* everywhere
HotSets(h, w) ==
    { {}, Pixels(h, w),
      {<<w - 2, 0>>, <<w - 1, 0>>, <<w - 2, 1>>, <<w - 1, 1>>},
      {<<0, h - 1>>, <<w - 1, 0>>, <<w - 2, 1>>} }

PixelDiffs(h, w) ==
    {[p \in Pixels(h, w) |-> IF p \in hot THEN 19 ELSE 0] : hot \in HotSets(h, w)}
        \cup {[p \in Pixels(h, w) |-> 18]}

MinAreas == {-1, 0, 2}

Thresholds == {<<65, 100>>, <<0, 1>>, <<-1, 2>>, <<1, 1>>}

(***************************************************************************)
(* RegionExtractor.forward and post_process_bbox_detections.               *)
(***************************************************************************)
\* a constructed extractor and the two frame batches of a call to forward
Init ==
    /\ cfg \in [persons_only : BOOLEAN, min_bbox_area : {0},
                max_bbox_overlap : {<<65, 100>>},
                enable_foreground_detections : BOOLEAN,
                foreground_binary_threshold : {18}]
    /\ last_shape \in {<<n, FrameH, FrameW>> : n \in BatchSizes}
    /\ first_shape \in {<<n, FrameH, w>> : n \in BatchSizes, w \in {FrameW, FrameW - 1}}
    /\ pc = "start"
    /\ detector_calls = 0
    /\ detected = <<>>
    /\ pixel_diff = <<>>
    /\ foreground_map = <<>>
    /\ regions = <<>>
    /\ img = 1
    /\ stage = "none"
    /\ prev = EmptyRegions
    /\ filtered_regions = EmptyRegions
    /\ indices = <<>>
    /\ filtered_regions_list = <<>>
    /\ pass = 1
    /\ first_result = <<>>
    /\ result = <<>>
    /\ error = "none"

\* a constructed extractor and a call of post_process_bbox_detections on
\* the detections of one image
InitFilter ==
    /\ cfg \in [persons_only : BOOLEAN, min_bbox_area : MinAreas,
                max_bbox_overlap : Thresholds,
                enable_foreground_detections : {FALSE},
                foreground_binary_threshold : {18}]
    /\ last_shape = <<1, FrameH, FrameW>>
    /\ first_shape = <<1, FrameH, FrameW>>
    /\ pc = "filter"
    /\ detector_calls = 0
    /\ regions \in {<<r>> : r \in Detections(FilterPool, FrameH, FrameW)}
    /\ detected = regions
    /\ pixel_diff = <<>>
    /\ foreground_map = <<>>
    /\ img = 1
    /\ stage = "none"
    /\ prev = EmptyRegions
    /\ filtered_regions = EmptyRegions
    /\ indices = <<>>
    /\ filtered_regions_list = <<>>
    /\ pass = 1
    /\ first_result = <<>>
    /\ result = <<>>
    /\ error = "none"

\* lines 111-114: the detector runs on last_frame, whatever first_frame is
Detect ==
    /\ pc = "start"
    /\ \E dets \in [1 .. last_shape[1] ->
                       Detections(ForwardPool(last_shape[2], last_shape[3]),
                                  last_shape[2], last_shape[3])] :
        /\ regions' = dets
        /\ detected' = dets
    /\ detector_calls' = detector_calls + 1
    /\ pc' = IF cfg.enable_foreground_detections THEN "fuse" ELSE "filter"
    /\ UNCHANGED <<cfg, first_shape, last_shape, pixel_diff, foreground_map, img,
                   stage, prev, filtered_regions, indices, filtered_regions_list,
                   pass, first_result, result, error>>

\* lines 115-121, frames that cannot be subtracted: line 165 raises
FuseShapeError ==
    /\ pc = "fuse"
    /\ DiffBatch(first_shape, last_shape) = 0
    /\ pc' = "raised"
    /\ error' = "RuntimeError"
    /\ UNCHANGED <<cfg, first_shape, last_shape, detector_calls, detected, pixel_diff,
                   foreground_map, regions, img, stage, prev, filtered_regions,
                   indices, filtered_regions_list, pass, first_result, result>>

\* lines 115-121: _add_foreground_boxes on frames that broadcast
Fuse ==
    /\ pc = "fuse"
    /\ DiffBatch(first_shape, last_shape) > 0
    /\ \E diffs \in [1 .. DiffBatch(first_shape, last_shape) ->
                        PixelDiffs(last_shape[2], last_shape[3])] :
        LET out == _add_foreground_boxes(regions, diffs, last_shape[2], last_shape[3],
                                         cfg.foreground_binary_threshold)
        IN  /\ pixel_diff' = diffs
            /\ foreground_map' = out.foreground_map
            /\ regions' = out.regions
            /\ error' = out.error
            /\ pc' = IF out.error = "none" THEN "filter" ELSE "raised"
    /\ UNCHANGED <<cfg, first_shape, last_shape, detector_calls, detected, img, stage,
                   prev, filtered_regions, indices, filtered_regions_list, pass,
                   first_result, result>>

\* line 221, for the image the loop is at
LabelStage ==
    /\ pc = "filter"
    /\ stage \in {"none", "overlap"}
    /\ img <= Len(regions)
    /\ prev' = regions[img]
    /\ filtered_regions' = label_stage(regions[img], cfg)
    /\ stage' = "label"
    /\ UNCHANGED <<cfg, first_shape, last_shape, pc, detector_calls, detected,
                   pixel_diff, foreground_map, regions, img, indices,
                   filtered_regions_list, pass, first_result, result, error>>

\* line 222
AreaStage ==
    /\ pc = "filter"
    /\ stage = "label"
    /\ prev' = filtered_regions
    /\ filtered_regions' = _filter_by_area(filtered_regions, cfg.min_bbox_area)
    /\ stage' = "area"
    /\ UNCHANGED <<cfg, first_shape, last_shape, pc, detector_calls, detected,
                   pixel_diff, foreground_map, regions, img, indices,
                   filtered_regions_list, pass, first_result, result, error>>

\* lines 223-224, and the loop moves on to the next image
OverlapStage ==
    /\ pc = "filter"
    /\ stage = "area"
    /\ \E sorted \in argsort([i \in 1 .. Len(filtered_regions.boxes) |->
                                 box_area(filtered_regions.boxes[i])]) :
        LET kept == _delete_overlapping_boxes(filtered_regions,
                                              cfg.max_bbox_overlap, sorted)
        IN  /\ indices' = sorted
            /\ filtered_regions' = kept
            /\ filtered_regions_list' = Append(filtered_regions_list, kept)
    /\ prev' = filtered_regions
    /\ stage' = "overlap"
    /\ img' = img + 1
    /\ UNCHANGED <<cfg, first_shape, last_shape, pc, detector_calls, detected,
                   pixel_diff, foreground_map, regions, pass, first_result, result,
                   error>>

\* line 225 (and line 123)
Return ==
    /\ pc = "filter"
    /\ stage \in {"none", "overlap"}
    /\ img > Len(regions)
    /\ result' = filtered_regions_list
    /\ pc' = "returned"
    /\ UNCHANGED <<cfg, first_shape, last_shape, detector_calls, detected, pixel_diff,
                   foreground_map, regions, img, stage, prev, filtered_regions,
                   indices, filtered_regions_list, pass, first_result, error>>

\* post_process_bbox_detections called again, on what it returned
FilterAgain ==
    /\ pc = "returned"
    /\ pass = 1
    /\ first_result' = result
    /\ regions' = result
    /\ pass' = 2
    /\ pc' = "filter"
    /\ img' = 1
    /\ stage' = "none"
    /\ filtered_regions_list' = <<>>
    /\ UNCHANGED <<cfg, first_shape, last_shape, detector_calls, detected, pixel_diff,
                   foreground_map, prev, filtered_regions, indices, result, error>>

Next ==
    \/ Detect
    \/ FuseShapeError
    \/ Fuse
    \/ LabelStage
    \/ AreaStage
    \/ OverlapStage
    \/ Return

NextFilter ==
    \/ LabelStage
    \/ AreaStage
    \/ OverlapStage
    \/ Return
    \/ FilterAgain

\* a call of forward
Spec == Init /\ [][Next]_vars

\* post_process_bbox_detections applied to a detection set, then to its result
SpecFilter == InitFilter /\ [][NextFilter]_vars

(***************************************************************************)
(* Properties.                                                             *)
(***************************************************************************)
SameLength(rgn) ==
    /\ Len(rgn.boxes) = Len(rgn.labels)
    /\ Len(rgn.boxes) = Len(rgn.scores)
    /\ Len(rgn.boxes) = Len(rgn.masks)

Entry(rgn, i) == <<rgn.boxes[i], rgn.labels[i], rgn.scores[i], rgn.masks[i]>>

Entries(rgn) == {Entry(rgn, i) : i \in 1 .. Len(rgn.boxes)}

Count(rgn, e) == Cardinality({i \in 1 .. Len(rgn.boxes) : Entry(rgn, i) = e})

\* rgn holds the entries of from at the positions idx, for some idx
IsSelectionOf(rgn, from) ==
    /\ SameLength(rgn)
    /\ \A i \in 1 .. Len(rgn.boxes) : Entry(rgn, i) \in Entries(from)

\* the box has no extent in x or in y
Degenerate(box) == box[3] <= box[1] \/ box[4] <= box[2]

\* the two boxes share no area
Disjoint(a, b) ==
    ~ (Max(a[1], b[1]) < Min(a[3], b[3]) /\ Max(a[2], b[2]) < Min(a[4], b[4]))

\* box a overlaps box b above the threshold, relative to a's own area
Overlaps(a, b) == RatioExceeds(overlap_area(a, b), box_area(a), cfg.max_bbox_overlap)

\* the image whose overlap suppression has just ended
AfterOverlap == pc = "filter" /\ stage = "overlap"

\* C1: for every image the four sequences have the same length after the
\* detector, after foreground fusion and after each of the three filters, and
\* what a filter leaves is a selection of whole entries of what it was given.
C1_ParallelLengths ==
    /\ \A im \in 1 .. Len(regions) : SameLength(regions[im])
    /\ \A im \in 1 .. Len(filtered_regions_list) : SameLength(filtered_regions_list[im])
    /\ \A im \in 1 .. Len(result) : SameLength(result[im])
    /\ SameLength(prev)
    /\ IsSelectionOf(filtered_regions, prev)

\* an image to which fusion appended, of which the label filter and the
\* overlap suppression removed entries, and which keeps some
C1_Witness ==
    /\ AfterOverlap
    /\ Len(regions[img - 1].boxes) > Len(detected[img - 1].boxes)
    /\ Len(prev.boxes) < Len(regions[img - 1].boxes)
    /\ Len(filtered_regions.boxes) < Len(prev.boxes)
    /\ Len(filtered_regions.boxes) >= 1

C3_SmallerDropped ==
    AfterOverlap =>
        /\ \A i, j \in 1 .. Len(prev.boxes) :
            (/\ box_area(prev.boxes[i]) < box_area(prev.boxes[j])
             /\ Overlaps(prev.boxes[i], prev.boxes[j]))
                => Entry(prev, i) \notin Entries(filtered_regions)
        /\ \A j \in 1 .. Len(prev.boxes) :
            (\A k \in (1 .. Len(prev.boxes)) \ {j} :
                box_area(prev.boxes[k]) >= box_area(prev.boxes[j])
                    => ~ Overlaps(prev.boxes[j], prev.boxes[k]))
                => Entry(prev, j) \in Entries(filtered_regions)
        /\ \A s, t \in 1 .. Len(indices) :
            (/\ s < t
             /\ box_area(prev.boxes[indices[s]]) = box_area(prev.boxes[indices[t]])
             /\ Overlaps(prev.boxes[indices[s]], prev.boxes[indices[t]]))
                => /\ Entry(prev, indices[s]) \notin Entries(filtered_regions)
                   /\ (\A u \in t + 1 .. Len(indices) :
                          ~ Overlaps(prev.boxes[indices[t]], prev.boxes[indices[u]]))
                        => Entry(prev, indices[t]) \in Entries(filtered_regions)
        /\ (/\ Range(prev.boxes) = {<<0, 0, 2, 5>>, <<0, 0, 4, 5>>}
            /\ cfg.max_bbox_overlap = <<65, 100>>)
                => filtered_regions.boxes = << <<0, 0, 4, 5>> >>

\* the suppression was given the nested pair and the two boxes of area 20
\* that overlap each other by 0.75, and kept exactly one of the latter
C3_Witness ==
    /\ AfterOverlap
    /\ cfg.max_bbox_overlap = <<65, 100>>
    /\ {<<0, 0, 2, 5>>, <<0, 0, 4, 5>>, <<1, 0, 5, 5>>} \subseteq Range(prev.boxes)
    /\ Cardinality(Range(filtered_regions.boxes)
                       \cap {<<0, 0, 4, 5>>, <<1, 0, 5, 5>>}) = 1
    /\ <<0, 0, 2, 5>> \notin Range(filtered_regions.boxes)

\* C4 as stated: two boxes of positive extent that share no area both survive
\* overlap suppression, whatever the threshold.
C4_DisjointSurviveAnyThreshold ==
    (/\ AfterOverlap
     /\ Len(prev.boxes) = 2
     /\ ~ Degenerate(prev.boxes[1])
     /\ ~ Degenerate(prev.boxes[2])
     /\ Disjoint(prev.boxes[1], prev.boxes[2]))
        => Entries(filtered_regions) = Entries(prev)

\* C4, amended: a box that shares no area with any other box survives overlap
\* suppression for every threshold that is not negative.
C4_DisjointSurvive ==
    (AfterOverlap /\ cfg.max_bbox_overlap[1] >= 0) =>
        \A i \in 1 .. Len(prev.boxes) :
            (\A j \in (1 .. Len(prev.boxes)) \ {i} :
                Disjoint(prev.boxes[i], prev.boxes[j]))
                => Entry(prev, i) \in Entries(filtered_regions)

\* the suppression was given exactly two boxes, which are apart, with
\* threshold 0, and kept both
C4_Witness ==
    /\ AfterOverlap
    /\ cfg.max_bbox_overlap = <<0, 1>>
    /\ Len(prev.boxes) = 2
    /\ box_area(prev.boxes[1]) > 0
    /\ box_area(prev.boxes[2]) > 0
    /\ Disjoint(prev.boxes[1], prev.boxes[2])
    /\ Len(filtered_regions.boxes) = 2

C6_AppendOnly ==
    (pc \in {"fuse", "filter", "raised"} /\ pass = 1) =>
        \A im \in 1 .. Len(regions) :
            LET old == detected[im]
                new == regions[im]
                n == Len(old.boxes)
            IN  /\ SameLength(new)
                /\ Len(new.boxes) >= n
                /\ \A i \in 1 .. n : Entry(new, i) = Entry(old, i)
                /\ \A i \in n + 1 .. Len(new.boxes) :
                    new.labels[i] = 0 /\ new.scores[i] = 50
                /\ im <= Len(foreground_map) =>
                    /\ Len(new.boxes) = n + Len(ComponentBoxes(foreground_map[im]))
                    /\ ComponentBoxes(foreground_map[im]) = <<>> => new = old

\* fusion appended to an image that had detections, and left another as it was
C6_Witness ==
    /\ pc = "filter"
    /\ Len(foreground_map) = 2
    /\ Len(detected[1].boxes) >= 1
    /\ Len(regions[1].boxes) > Len(detected[1].boxes)
    /\ Len(detected[2].boxes) >= 1
    /\ regions[2] = detected[2]

\* a box that covers every pixel of the frame
CoversFrame(box) ==
    /\ box[1] <= 0
    /\ box[2] <= 0
    /\ box[3] >= last_shape[3] - 1
    /\ box[4] >= last_shape[2] - 1

\* C7: an image with a detected box that covers the whole frame has no
\* residual foreground, and fusion appends nothing to it, whatever the
\* difference of the two frames.
C7_FullFrameExcludes ==
    (pc \in {"filter", "raised"} /\ pass = 1 /\ Len(foreground_map) > 0) =>
        \A im \in 1 .. Len(regions) :
            (\E k \in 1 .. Len(detected[im].boxes) : CoversFrame(detected[im].boxes[k]))
                => /\ foreground_map[im] = {}
                   /\ regions[im] = detected[im]

\* fusion ran on an image whose only detection is the box of the whole frame
\* while every pixel differed by more than the threshold
C7_Witness ==
    /\ pc = "filter"
    /\ Len(foreground_map) > 0
    /\ detected[1].boxes = << <<0, 0, last_shape[3], last_shape[2]>> >>
    /\ \A p \in DOMAIN pixel_diff[1] :
        pixel_diff[1][p] > cfg.foreground_binary_threshold
    /\ regions[1] = detected[1]

\* C8 as stated: when the two frame batches differ in batch size or in frame
\* shape the call fails before anything is processed: the detector is not
\* invoked, nothing is fused or filtered, and the error is "invalid input
\* shape".
C8_FailsFast ==
    first_shape # last_shape =>
        /\ detector_calls = 0
        /\ pc \in {"start", "raised"}
        /\ pc = "raised" => error = "invalid input shape"
        /\ regions = <<>>

\* C9 as stated: a box with x2 <= x1 or y2 <= y1, one with x2 < x1 and y2 < y1
\* included, counts as of area 0, and the area filter removes it for every
\* min_bbox_area >= 0.
C9_DegenerateRemoved ==
    (pc = "filter" /\ stage = "area" /\ cfg.min_bbox_area >= 0) =>
        \A i \in 1 .. Len(filtered_regions.boxes) :
            ~ Degenerate(filtered_regions.boxes[i])

\* C10: overlap suppression is given only what the label filter and the area
\* filter left, and all of it: with persons_only every competitor is a person,
\* every competitor has an area above min_bbox_area, and a box is dropped only
\* when one of these competitors overlaps it above the threshold.
C10_RemovedNeverCompete ==
    AfterOverlap =>
        LET given == regions[img - 1] IN
        /\ \A i \in 1 .. Len(prev.boxes) :
            /\ cfg.persons_only => prev.labels[i] = PERSON_LABEL
            /\ box_area(prev.boxes[i]) > cfg.min_bbox_area
        /\ \A i \in 1 .. Len(given.boxes) :
            (/\ cfg.persons_only => given.labels[i] = PERSON_LABEL
             /\ box_area(given.boxes[i]) > cfg.min_bbox_area)
                => Entry(given, i) \in Entries(prev)
        /\ \A i \in 1 .. Len(prev.boxes) :
            Entry(prev, i) \notin Entries(filtered_regions)
                => \E k \in (1 .. Len(prev.boxes)) \ {i} :
                    /\ cfg.persons_only => prev.labels[k] = PERSON_LABEL
                    /\ box_area(prev.boxes[k]) > cfg.min_bbox_area
                    /\ Overlaps(prev.boxes[i], prev.boxes[k])

\* with persons_only, a person box inside a larger box of another class
\* survives, and so does a box that contains a box too small for the filter
C10_Witness ==
    /\ AfterOverlap
    /\ pass = 1
    /\ cfg.persons_only
    /\ cfg.max_bbox_overlap = <<65, 100>>
    /\ cfg.min_bbox_area = 2
    /\ {<<0, 0, 6, 6>>, <<0, 0, 4, 5>>, <<0, 0, 1, 2>>} \subseteq Range(regions[1].boxes)
    /\ filtered_regions.boxes = << <<0, 0, 4, 5>> >>

====
